---- MODULE Spec2Model ----
(***************************************************************************)
(* Service layer of the image compressor: the auth gate, the four HTTP     *)
(* handlers of server.ts, and the option translation they perform before   *)
(* handing the pixel work to the image library.  The library itself is an  *)
(* external collaborator: its decode/encode outcome is a nondeterministic  *)
(* choice, its invocations are recorded in `calls`.                        *)
(***************************************************************************)
EXTENDS Integers, Sequences, FiniteSets, TLC

VARIABLES
  env,      \* process.env
  API_KEY,  \* the constant of middleware/auth, set when the module is loaded
  pc,       \* where the request in flight is: idle, auth, upload, handler, done
  req,      \* the request in flight
  res,      \* the response written for it
  gate,     \* what the auth gate did with it: none, next, rejected
  calls,    \* the library invocations made for it, in order
  encoded,  \* the buffer toBuffer returned for it, <<>> when it returned none
  prev,     \* how the request before it ended: none, ok, error
  boot,     \* process.env as it was when the process started
  failure,  \* what was thrown while the request in flight was handled, <<>> if nothing
  sent,     \* how many responses have been written for the request in flight
  parked,   \* a second request in flight, waiting for the event loop
  proc,     \* the process: running, "exit 0", "exit 1"
  errlog    \* what the process-level handlers have logged

vars ==
  <<env, API_KEY, pc, req, res, gate, calls, encoded, prev, boot, failure, sent, parked,
    proc, errlog>>

----------------------------------------------------------------------------
(* Bounds of the model *)

\* longest encoder output, in bytes
MaxOut == 3
\* most keys present in one options object
MaxOptKeys == 1

----------------------------------------------------------------------------
(* JavaScript values: one record shape for every primitive, so that values *)
(* of different JavaScript types can be compared.                          *)

Undef == [t |-> "undefined", n |-> 0, s |-> "", b |-> FALSE]
Null == [t |-> "null", n |-> 0, s |-> "", b |-> FALSE]
Num(k) == [t |-> "number", n |-> k, s |-> "", b |-> FALSE]
Str(x) == [t |-> "string", n |-> 0, s |-> x, b |-> FALSE]
Bool(x) == [t |-> "boolean", n |-> 0, s |-> "", b |-> x]

\* ToBoolean: what `!v`, `v || d` and `if (v)` test
Truthy(v) ==
  CASE v.t = "undefined" -> FALSE
    [] v.t = "null" -> FALSE
    [] v.t = "number" -> v.n # 0
    [] v.t = "string" -> v.s # ""
    [] v.t = "boolean" -> v.b

\* a || d
JsOr(a, d) == IF Truthy(a) THEN a ELSE d

\* a === b on primitives
StrictEq(a, b) == a = b

\* destructuring default `x = d`: only undefined takes the default
JsDefault(a, d) == IF a.t = "undefined" THEN d ELSE a

\* `${v}` for the values a format field can hold
TemplateString(v) ==
  CASE v.t = "string" -> v.s
    [] v.t = "null" -> "null"
    [] v.t = "undefined" -> "undefined"
    [] v.t = "boolean" -> IF v.b THEN "true" ELSE "false"

----------------------------------------------------------------------------
(* Buffers are sequences of bytes; strings that hold base64 text are       *)
(* sequences of character codes: 0..63 the base64 alphabet, Pad the "="    *)
(* sign, Junk any character outside the alphabet.                          *)

Pad == 64
Junk == 65

Bytes == {0, 255}

RECURSIVE SeqsUpTo(_, _)
SeqsUpTo(S, n) ==
  IF n = 0 THEN {<<>>}
  ELSE LET shorter == SeqsUpTo(S, n - 1)
       IN  shorter \cup {Append(q, x) : q \in {r \in shorter : Len(r) = n - 1}, x \in S}

\* buffer.toString("base64")
RECURSIVE Base64Encode(_)
Base64Encode(buf) ==
  CASE Len(buf) = 0 -> <<>>
    [] Len(buf) = 1 ->
         <<buf[1] \div 4, (buf[1] % 4) * 16, Pad, Pad>>
    [] Len(buf) = 2 ->
         <<buf[1] \div 4, (buf[1] % 4) * 16 + buf[2] \div 16, (buf[2] % 16) * 4, Pad>>
    [] OTHER ->
         <<buf[1] \div 4, (buf[1] % 4) * 16 + buf[2] \div 16,
           (buf[2] % 16) * 4 + buf[3] \div 64, buf[3] % 64>>
         \o Base64Encode(SubSeq(buf, 4, Len(buf)))

\* the text before the first "=", without the characters outside the alphabet
RECURSIVE Base64Sextets(_)
Base64Sextets(text) ==
  IF Len(text) = 0 \/ Head(text) = Pad THEN <<>>
  ELSE IF Head(text) \in 0..63 THEN <<Head(text)>> \o Base64Sextets(Tail(text))
  ELSE Base64Sextets(Tail(text))

RECURSIVE SextetsToBytes(_)
SextetsToBytes(x) ==
  CASE Len(x) < 2 -> <<>>
    [] Len(x) = 2 -> <<x[1] * 4 + x[2] \div 16>>
    [] Len(x) = 3 -> <<x[1] * 4 + x[2] \div 16, (x[2] % 16) * 16 + x[3] \div 4>>
    [] OTHER ->
         <<x[1] * 4 + x[2] \div 16, (x[2] % 16) * 16 + x[3] \div 4, (x[3] % 4) * 64 + x[4]>>
         \o SextetsToBytes(SubSeq(x, 5, Len(x)))

\* Buffer.from(text, "base64")
Base64Decode(text) == SextetsToBytes(Base64Sextets(text))

\* n.toString(): the decimal digits of a length
RECURSIVE NumberToString(_)
NumberToString(n) ==
  IF n < 10 THEN <<n>> ELSE Append(NumberToString(n \div 10), n % 10)

----------------------------------------------------------------------------
(* The options object.  An object is the function from the keys the        *)
(* handlers read to their values, Undef for a key that is not there.  A    *)
(* value that stands where an options object is expected is an OptVal:     *)
(* an object, or a primitive (undefined, null, a number, ...).             *)

NumericKeys == <<"quality", "method", "effort", "level">>
BooleanKeys == <<"progressive", "lossless", "near_lossless", "use_sharp_yuv", "interlace">>
\* a key the testing guide writes and no handler reads
GuideKeys == <<"nearLossless">>
OptKeySeq == NumericKeys \o BooleanKeys \o GuideKeys
OptKeys == {OptKeySeq[i] : i \in DOMAIN OptKeySeq}

Range(q) == {q[i] : i \in DOMAIN q}

EmptyBag == [k \in OptKeys |-> Undef]

Obj(bag) == [t |-> "object", bag |-> bag, prim |-> Undef]
Prim(v) == [t |-> v.t, bag |-> EmptyBag, prim |-> v]

OptTruthy(o) == IF o.t = "object" THEN TRUE ELSE Truthy(o.prim)

\* o[k] fails on undefined and null, and is undefined on the other primitives
CanRead(o) == o.t \notin {"undefined", "null"}
Get(o, k) == IF o.t = "object" THEN o.bag[k] ELSE Undef

----------------------------------------------------------------------------
(* JSON text, as the sequence of its lexical tokens.                       *)

Punct(c) == [tt |-> "punct", s |-> c, n |-> 0]
StrTok(x) == [tt |-> "string", s |-> x, n |-> 0]
NumTok(k) == [tt |-> "number", s |-> "", n |-> k]
LitTok(w) == [tt |-> "literal", s |-> w, n |-> 0]
\* a bare word, which no JSON value starts with
WordTok(w) == [tt |-> "word", s |-> w, n |-> 0]

IsScalarTok(tok) ==
  \/ tok.tt \in {"string", "number"}
  \/ tok.tt = "literal" /\ tok.s \in {"true", "false", "null"}

ScalarOf(tok) ==
  CASE tok.tt = "string" -> Str(tok.s)
    [] tok.tt = "number" -> Num(tok.n)
    [] tok.s = "true" -> Bool(TRUE)
    [] tok.s = "false" -> Bool(FALSE)
    [] OTHER -> Null

TokOf(v) ==
  CASE v.t = "string" -> StrTok(v.s)
    [] v.t = "number" -> NumTok(v.n)
    [] v.t = "boolean" -> LitTok(IF v.b THEN "true" ELSE "false")
    [] OTHER -> LitTok("null")

ParseFail == [ok |-> FALSE, val |-> Prim(Undef)]

\* the members of an object after "{" or ",": "key" : scalar, then "," or "}"
RECURSIVE ParseMembers(_, _)
ParseMembers(toks, bag) ==
  IF Len(toks) < 4 THEN ParseFail
  ELSE IF ~(toks[1].tt = "string" /\ toks[2] = Punct(":") /\ IsScalarTok(toks[3])) THEN ParseFail
  ELSE LET k == toks[1].s
           bag2 == IF k \in OptKeys THEN [bag EXCEPT ![k] = ScalarOf(toks[3])] ELSE bag
       IN  IF toks[4] = Punct("}")
           THEN IF Len(toks) = 4 THEN [ok |-> TRUE, val |-> Obj(bag2)] ELSE ParseFail
           ELSE IF toks[4] = Punct(",") THEN ParseMembers(SubSeq(toks, 5, Len(toks)), bag2)
           ELSE ParseFail

\* JSON.parse(text): ok is FALSE where it throws a SyntaxError
JsonParse(toks) ==
  IF Len(toks) = 0 THEN ParseFail
  ELSE IF Len(toks) = 1
       THEN IF IsScalarTok(toks[1]) THEN [ok |-> TRUE, val |-> Prim(ScalarOf(toks[1]))]
            ELSE ParseFail
  ELSE IF toks[1] # Punct("{") THEN ParseFail
  ELSE IF Len(toks) = 2
       THEN IF toks[2] = Punct("}") THEN [ok |-> TRUE, val |-> Obj(EmptyBag)] ELSE ParseFail
  ELSE ParseMembers(Tail(toks), EmptyBag)

\* the members of JSON.stringify(object), keys in insertion order
RECURSIVE StringifyMembers(_, _)
StringifyMembers(bag, keys) ==
  IF Len(keys) = 0 THEN <<>>
  ELSE LET rest == StringifyMembers(bag, Tail(keys))
           k == Head(keys)
       IN  IF bag[k] = Undef THEN rest
           ELSE <<StrTok(k), Punct(":"), TokOf(bag[k])>>
                \o (IF Len(rest) = 0 THEN <<>> ELSE <<Punct(",")>> \o rest)

\* JSON.stringify(options), as a client writes the `options` form field
JsonStringify(bag) == <<Punct("{")>> \o StringifyMembers(bag, OptKeySeq) \o <<Punct("}")>>

----------------------------------------------------------------------------
(* The image library, seen from the handlers.  A buffer either is an image *)
(* the library can decode or is not; for a decodable input the encoder may *)
(* return any buffer or fail.                                              *)

\* the first byte of every input the library accepts
Magic == 255

Decodable(buf) == Len(buf) > 0 /\ buf[1] = Magic

EmptyInputError == "Input Buffer is empty"
DecodeError == "Input buffer contains unsupported image format"
LibErrors == {DecodeError, "Processing failed"}

\* the buffers an encoder can return
Outputs == SeqsUpTo(Bytes, MaxOut) \ {<<>>}

\* metadata().width / metadata().height: a number, or undefined
Dims == {Undef, Num(8)}

\* an error thrown inside a handler, as the catch block sees it
Thrown(msg) == [isError |-> TRUE, message |-> msg]

\* one invocation of the library
Call(op, params) == [op |-> op, params |-> params]
NoParams == [none |-> Undef]

----------------------------------------------------------------------------
(* Requests and responses *)

Placeholder == "your-secure-api-key-here"

NoImage == [t |-> "undefined", chars |-> <<>>]
ImageText(chars) == [t |-> "string", chars |-> chars]
\* mutant: the check tests only that the field is there
ImageTruthy_Present(i) == i.t = "string"

\* what `!image` tests
ImageTruthy(i) == i.t = "string" /\ Len(i.chars) > 0

NoField == [t |-> "undefined", toks |-> <<>>]
Field(toks) == [t |-> "string", toks |-> toks]
FieldTruthy(f) == f.t = "string" /\ Len(f.toks) > 0

NoFile == [present |-> FALSE, buffer |-> <<>>]
File(buf) == [present |-> TRUE, buffer |-> buf]

NoResize ==
  [t |-> "undefined", enabled |-> Undef, width |-> Undef, height |-> Undef,
   fitMethod |-> Undef, method |-> Undef]
NullResize == [NoResize EXCEPT !.t = "null"]
Resize(enabled, width, height, fitMethod, method) ==
  [t |-> "object", enabled |-> enabled, width |-> width, height |-> height,
   fitMethod |-> fitMethod, method |-> method]

NoReq ==
  [endpoint |-> "", xApiKey |-> Undef, image |-> NoImage, format |-> Undef,
   options |-> Prim(Undef), resize |-> NoResize, part |-> NoFile, file |-> NoFile,
   optionsField |-> NoField, apiKey |-> Undef]

NoRes ==
  [status |-> 0, kind |-> "none", error |-> "", image |-> <<>>, size |-> 0,
   format |-> "", contentType |-> "", contentLength |-> <<>>, raw |-> <<>>,
   width |-> 0, height |-> 0, health |-> "", service |-> ""]

\* res.status(code).json({error: msg})
ErrorRes(code, msg) == [NoRes EXCEPT !.status = code, !.kind = "error", !.error = msg]

\* mutant: the catch block answers with its fallback text
Catch_Generic(e) == ErrorRes(500, "Unknown error occurred")

\* the catch block of a handler: 500 with the message of what was thrown
Catch(e) == ErrorRes(500, IF e.isError THEN e.message ELSE "Unknown error occurred")

\* what a handler leaves behind: its response, the library calls it made, the
\* buffer it got and what its catch block caught
Outcome(r, c, o) == [res |-> r, calls |-> c, out |-> o, failure |-> <<>>]

\* the path through the catch block, after e was thrown
Caught(e, c) == [res |-> Catch(e), calls |-> c, out |-> <<>>, failure |-> <<e>>]

----------------------------------------------------------------------------
(* Auth gate (middleware/auth) *)

\* mutant: only an unset API_KEY takes the placeholder
LoadApiKey_Unset(e) == IF e.API_KEY.t = "undefined" THEN Str(Placeholder) ELSE e.API_KEY

\* const API_KEY = process.env.API_KEY || 'your-secure-api-key-here'
LoadApiKey(e) == JsOr(e.API_KEY, Str(Placeholder))

\* const enableAuth = process.env.ENABLE_AUTH === 'true'
EnableAuth(e) == StrictEq(e.ENABLE_AUTH, Str("true"))

\* what the gate does with a request: whether it writes a response, and
\* whether it calls next()
Pass == [next |-> TRUE, responded |-> FALSE, res |-> NoRes]
Reject(r) == [next |-> FALSE, responded |-> TRUE, res |-> r]

\* mutant: the key is required but never compared
ValidateApiKey_AnyKey(key, r) ==
  IF ~Truthy(r.xApiKey) THEN Reject(ErrorRes(401, "API key is required")) ELSE Pass

ValidateApiKey(key, r) ==
  LET apiKey == r.xApiKey
  IN  IF ~Truthy(apiKey) THEN Reject(ErrorRes(401, "API key is required"))
      ELSE IF ~StrictEq(apiKey, key) THEN Reject(ErrorRes(403, "Invalid API key"))
      ELSE Pass

\* mutant: next() is called after validateApiKey as well
OptionalApiKeyDecision_Fallthrough(e, key, r) ==
  IF ~EnableAuth(e) THEN Pass ELSE [ValidateApiKey(key, r) EXCEPT !.next = TRUE]

OptionalApiKeyDecision(e, key, r) ==
  IF ~EnableAuth(e) THEN Pass ELSE ValidateApiKey(key, r)

----------------------------------------------------------------------------
(* GET /health *)

HealthRes ==
  [NoRes EXCEPT !.status = 200, !.kind = "health", !.health = "healthy",
                !.service = "image-compressor"]

----------------------------------------------------------------------------
(* POST /info *)

InfoRes(meta) ==
  [NoRes EXCEPT !.status = 200, !.kind = "info",
                !.width = JsOr(meta.width, Num(0)).n,
                !.height = JsOr(meta.height, Num(0)).n]

InfoOutcomes(r) ==
  IF ~ImageTruthy(r.image)
  THEN {Outcome(ErrorRes(400, "Image data required"), <<>>, <<>>)}
  ELSE LET imageBuffer == Base64Decode(r.image.chars)
           c0 == <<Call("sharp", NoParams)>>
           c1 == Append(c0, Call("metadata", NoParams))
       IN  IF Len(imageBuffer) = 0 THEN {Caught(Thrown(EmptyInputError), c0)}
           ELSE IF ~Decodable(imageBuffer) THEN {Caught(Thrown(DecodeError), c1)}
           ELSE {Outcome(InfoRes([width |-> w, height |-> h]), c1, <<>>) : w \in Dims, h \in Dims}
                \cup {Caught(Thrown(m), c1) : m \in LibErrors}

----------------------------------------------------------------------------
(* POST /compress *)

\* mutant: every resize object starts a resize
ResizeActive_Any(rz) == rz.t = "object"

\* if (resize && resize.enabled)
ResizeActive(rz) == rz.t = "object" /\ Truthy(rz.enabled)

\* mutant: the method is handed to the library under its own name
ResizeParams_Direct(rz) ==
  [width |-> IF Truthy(rz.width) THEN rz.width ELSE Undef,
   height |-> IF Truthy(rz.height) THEN rz.height ELSE Undef,
   fit |-> IF ~Truthy(rz.fitMethod) THEN Undef
           ELSE IF StrictEq(rz.fitMethod, Str("stretch")) THEN Str("fill")
           ELSE IF StrictEq(rz.fitMethod, Str("contain")) THEN Str("inside")
           ELSE Str("cover"),
   kernel |-> IF ~Truthy(rz.method) THEN Undef ELSE rz.method]

\* the resizeOptions object built from the request's resize
ResizeParams(rz) ==
  [width |-> IF Truthy(rz.width) THEN rz.width ELSE Undef,
   height |-> IF Truthy(rz.height) THEN rz.height ELSE Undef,
   fit |-> IF ~Truthy(rz.fitMethod) THEN Undef
           ELSE IF StrictEq(rz.fitMethod, Str("stretch")) THEN Str("fill")
           ELSE IF StrictEq(rz.fitMethod, Str("contain")) THEN Str("inside")
           ELSE Str("cover"),
   kernel |-> IF ~Truthy(rz.method) THEN Undef
              ELSE IF StrictEq(rz.method, Str("lanczos3")) THEN Str("lanczos3")
              ELSE IF StrictEq(rz.method, Str("mitchell")) THEN Str("mitchell")
              ELSE IF StrictEq(rz.method, Str("catrom")) THEN Str("cubic")
              ELSE Str("lanczos3")]

Unsupported == [supported |-> FALSE, op |-> "", params |-> NoParams, outputFormat |-> ""]
Encoder(op, params, outputFormat) ==
  [supported |-> TRUE, op |-> op, params |-> params, outputFormat |-> outputFormat]

\* mutant: the cases do not overwrite outputFormat
CompressOutputFormat_Kept(format) == format.s

\* let outputFormat = format, and the cases that overwrite it with the alias
CompressOutputFormat(format) ==
  CASE format \in {Str("mozjpeg"), Str("jpeg")} -> "mozjpeg"
    [] format \in {Str("oxipng"), Str("png")} -> "oxipng"
    [] OTHER -> format.s

\* mutant: the boolean options are tested for truthiness
CompressEncoder_Truthy(format, options) ==
  CASE format \in {Str("mozjpeg"), Str("jpeg")} ->
         Encoder("jpeg",
                 [quality |-> JsOr(Get(options, "quality"), Num(75)),
                  progressive |-> Bool(Get(options, "progressive").t = "undefined"
                                       \/ Truthy(Get(options, "progressive"))),
                  mozjpeg |-> Bool(TRUE)],
                 CompressOutputFormat(format))
    [] format = Str("webp") ->
         Encoder("webp",
                 [quality |-> JsOr(Get(options, "quality"), Num(75)),
                  lossless |-> Bool(Truthy(Get(options, "lossless"))),
                  nearLossless |-> Bool(Truthy(Get(options, "near_lossless"))),
                  smartSubsample |-> Bool(Get(options, "use_sharp_yuv").t = "undefined"
                                          \/ Truthy(Get(options, "use_sharp_yuv"))),
                  effort |-> JsOr(Get(options, "method"), Num(4))],
                 CompressOutputFormat(format))
    [] format = Str("avif") ->
         Encoder("avif",
                 [quality |-> JsOr(Get(options, "quality"), Num(50)),
                  lossless |-> Bool(Truthy(Get(options, "lossless"))),
                  effort |-> JsOr(Get(options, "effort"), Num(4))],
                 CompressOutputFormat(format))
    [] format \in {Str("oxipng"), Str("png")} ->
         Encoder("png",
                 [compressionLevel |-> JsOr(Get(options, "level"), Num(2)),
                  progressive |-> Bool(Truthy(Get(options, "interlace"))),
                  effort |-> JsOr(Get(options, "effort"), Num(7))],
                 CompressOutputFormat(format))
    [] OTHER -> Unsupported

\* switch (format) of the /compress handler
CompressEncoder(format, options) ==
  CASE format \in {Str("mozjpeg"), Str("jpeg")} ->
         Encoder("jpeg",
                 [quality |-> JsOr(Get(options, "quality"), Num(75)),
                  progressive |-> Bool(~StrictEq(Get(options, "progressive"), Bool(FALSE))),
                  mozjpeg |-> Bool(TRUE)],
                 CompressOutputFormat(format))
    [] format = Str("webp") ->
         Encoder("webp",
                 [quality |-> JsOr(Get(options, "quality"), Num(75)),
                  lossless |-> Bool(StrictEq(Get(options, "lossless"), Bool(TRUE))),
                  nearLossless |-> Bool(StrictEq(Get(options, "near_lossless"), Bool(TRUE))),
                  smartSubsample |-> Bool(~StrictEq(Get(options, "use_sharp_yuv"), Bool(FALSE))),
                  effort |-> JsOr(Get(options, "method"), Num(4))],
                 CompressOutputFormat(format))
    [] format = Str("avif") ->
         Encoder("avif",
                 [quality |-> JsOr(Get(options, "quality"), Num(50)),
                  lossless |-> Bool(StrictEq(Get(options, "lossless"), Bool(TRUE))),
                  effort |-> JsOr(Get(options, "effort"), Num(4))],
                 CompressOutputFormat(format))
    [] format \in {Str("oxipng"), Str("png")} ->
         Encoder("png",
                 [compressionLevel |-> JsOr(Get(options, "level"), Num(2)),
                  progressive |-> Bool(StrictEq(Get(options, "interlace"), Bool(TRUE))),
                  effort |-> JsOr(Get(options, "effort"), Num(7))],
                 CompressOutputFormat(format))
    [] OTHER -> Unsupported

\* mutant: size is the length of the base64 text
CompressRes_TextLength(outputBuffer, outputFormat) ==
  [NoRes EXCEPT !.status = 200, !.kind = "compress",
                !.image = Base64Encode(outputBuffer),
                !.size = Len(Base64Encode(outputBuffer)),
                !.format = outputFormat]

\* mutant: the format answered is a module variable that the request before,
\* when it failed, left at its initial value
CompressRes_Leftover(outputBuffer, outputFormat) ==
  [NoRes EXCEPT !.status = 200, !.kind = "compress",
                !.image = Base64Encode(outputBuffer),
                !.size = Len(outputBuffer),
                !.format = IF prev = "error" THEN "mozjpeg" ELSE outputFormat]

\* res.json({image: base64, size: outputBuffer.length, format: outputFormat})
CompressRes(outputBuffer, outputFormat) ==
  [NoRes EXCEPT !.status = 200, !.kind = "compress",
                !.image = Base64Encode(outputBuffer),
                !.size = Len(outputBuffer),
                !.format = outputFormat]

\* await sharpInstance.toBuffer(): the buffers it can return, the errors it can throw
ToBufferResults(input) ==
  IF Decodable(input)
  THEN {[ok |-> TRUE, buffer |-> out, error |-> ""] : out \in Outputs}
       \cup {[ok |-> FALSE, buffer |-> <<>>, error |-> m] : m \in LibErrors}
  ELSE {[ok |-> FALSE, buffer |-> <<>>, error |-> DecodeError]}

\* mutant: a toBuffer that fails is started a second time
Attempt_Retry(input, c) ==
  LET c1 == Append(c, Call("toBuffer", NoParams))
      first == ToBufferResults(input)
  IN  {[calls |-> c1, result |-> t] : t \in {u \in first : u.ok}}
      \cup {[calls |-> Append(c1, Call("toBuffer", NoParams)), result |-> t]
            : t \in IF \E u \in first : ~u.ok THEN first ELSE {}}

\* const outputBuffer = await sharpInstance.toBuffer(): started once, and what
\* it returns or throws is what the handler goes on with
Attempt(input, c) ==
  {[calls |-> Append(c, Call("toBuffer", NoParams)), result |-> t]
   : t \in ToBufferResults(input)}

CompressOutcomes(r) ==
  LET format == JsDefault(r.format, Str("mozjpeg"))
      options == IF OptTruthy(r.options) THEN r.options ELSE Obj(EmptyBag)
  IN  IF ~ImageTruthy(r.image)
      THEN {Outcome(ErrorRes(400, "Image data required"), <<>>, <<>>)}
      ELSE LET imageBuffer == Base64Decode(r.image.chars)
               c0 == <<Call("sharp", NoParams)>>
               c1 == IF ResizeActive(r.resize)
                     THEN Append(c0, Call("resize", ResizeParams(r.resize)))
                     ELSE c0
               enc == CompressEncoder(format, options)
               c2 == Append(c1, Call(enc.op, enc.params))
           IN  IF Len(imageBuffer) = 0
               THEN {Caught(Thrown(EmptyInputError), c0)}
               ELSE IF ~enc.supported
               THEN {Caught(Thrown("Unsupported format: " \o TemplateString(format)), c1)}
               ELSE {IF a.result.ok
                     THEN Outcome(CompressRes(a.result.buffer, enc.outputFormat),
                                  a.calls, a.result.buffer)
                     ELSE Caught(Thrown(a.result.error), a.calls)
                     : a \in Attempt(imageBuffer, c2)}

----------------------------------------------------------------------------
(* POST /compress/file *)

UnsupportedFile == [supported |-> FALSE, op |-> "", params |-> NoParams, contentType |-> ""]
FileEnc(op, params, contentType) ==
  [supported |-> TRUE, op |-> op, params |-> params, contentType |-> contentType]

\* mutant: the webp effort is read from options.effort
FileEncoder_EffortKey(format, options) ==
  CASE format \in {Str("mozjpeg"), Str("jpeg")} ->
         FileEnc("jpeg",
                 [quality |-> JsOr(Get(options, "quality"), Num(75)),
                  progressive |-> Bool(~StrictEq(Get(options, "progressive"), Bool(FALSE))),
                  mozjpeg |-> Bool(TRUE)],
                 "image/jpeg")
    [] format = Str("webp") ->
         FileEnc("webp",
                 [quality |-> JsOr(Get(options, "quality"), Num(75)),
                  lossless |-> Bool(StrictEq(Get(options, "lossless"), Bool(TRUE))),
                  nearLossless |-> Bool(StrictEq(Get(options, "near_lossless"), Bool(TRUE))),
                  smartSubsample |-> Bool(~StrictEq(Get(options, "use_sharp_yuv"), Bool(FALSE))),
                  effort |-> JsOr(Get(options, "effort"), Num(4))],
                 "image/webp")
    [] format = Str("avif") ->
         FileEnc("avif",
                 [quality |-> JsOr(Get(options, "quality"), Num(50)),
                  lossless |-> Bool(StrictEq(Get(options, "lossless"), Bool(TRUE))),
                  effort |-> JsOr(Get(options, "effort"), Num(4))],
                 "image/avif")
    [] format \in {Str("oxipng"), Str("png")} ->
         FileEnc("png",
                 [compressionLevel |-> JsOr(Get(options, "level"), Num(2)),
                  progressive |-> Bool(StrictEq(Get(options, "interlace"), Bool(TRUE))),
                  effort |-> JsOr(Get(options, "effort"), Num(7))],
                 "image/png")
    [] OTHER -> UnsupportedFile

\* switch (format) of the /compress/file handler
FileEncoder(format, options) ==
  CASE format \in {Str("mozjpeg"), Str("jpeg")} ->
         FileEnc("jpeg",
                 [quality |-> JsOr(Get(options, "quality"), Num(75)),
                  progressive |-> Bool(~StrictEq(Get(options, "progressive"), Bool(FALSE))),
                  mozjpeg |-> Bool(TRUE)],
                 "image/jpeg")
    [] format = Str("webp") ->
         FileEnc("webp",
                 [quality |-> JsOr(Get(options, "quality"), Num(75)),
                  lossless |-> Bool(StrictEq(Get(options, "lossless"), Bool(TRUE))),
                  nearLossless |-> Bool(StrictEq(Get(options, "near_lossless"), Bool(TRUE))),
                  smartSubsample |-> Bool(~StrictEq(Get(options, "use_sharp_yuv"), Bool(FALSE))),
                  effort |-> JsOr(Get(options, "method"), Num(4))],
                 "image/webp")
    [] format = Str("avif") ->
         FileEnc("avif",
                 [quality |-> JsOr(Get(options, "quality"), Num(50)),
                  lossless |-> Bool(StrictEq(Get(options, "lossless"), Bool(TRUE))),
                  effort |-> JsOr(Get(options, "effort"), Num(4))],
                 "image/avif")
    [] format \in {Str("oxipng"), Str("png")} ->
         FileEnc("png",
                 [compressionLevel |-> JsOr(Get(options, "level"), Num(2)),
                  progressive |-> Bool(StrictEq(Get(options, "interlace"), Bool(TRUE))),
                  effort |-> JsOr(Get(options, "effort"), Num(7))],
                 "image/png")
    [] OTHER -> UnsupportedFile

\* the first property of options each case reads; reading it throws on null
FirstRead(op) == IF op = "png" THEN "level" ELSE "quality"

\* mutant: every upload is answered as a JPEG
FileRes_Jpeg(outputBuffer, contentType) ==
  [NoRes EXCEPT !.status = 200, !.kind = "binary",
                !.raw = outputBuffer,
                !.contentType = "image/jpeg",
                !.contentLength = NumberToString(Len(outputBuffer))]

\* res.set({Content-Type, Content-Length}); res.send(outputBuffer)
FileRes(outputBuffer, contentType) ==
  [NoRes EXCEPT !.status = 200, !.kind = "binary",
                !.raw = outputBuffer,
                !.contentType = contentType,
                !.contentLength = NumberToString(Len(outputBuffer))]

\* mutant: text that does not parse is taken as no options
ParseOptionsField_Lenient(f) ==
  IF FieldTruthy(f) /\ JsonParse(f.toks).ok THEN JsonParse(f.toks)
  ELSE [ok |-> TRUE, val |-> Obj(EmptyBag)]

\* let options = {}; if (body.options) options = JSON.parse(body.options)
ParseOptionsField(f) ==
  IF FieldTruthy(f) THEN JsonParse(f.toks) ELSE [ok |-> TRUE, val |-> Obj(EmptyBag)]

\* mutant: the upload handler runs the resize block of /compress
FileOutcomes_Resizing(r) ==
  LET format == JsOr(r.format, Str("mozjpeg"))
      parsed == ParseOptionsField(r.optionsField)
      options == parsed.val
      c0 == <<Call("sharp", NoParams)>>
      c1 == IF ResizeActive(r.resize)
            THEN Append(c0, Call("resize", ResizeParams(r.resize)))
            ELSE c0
      enc == FileEncoder(format, options)
      c2 == Append(c1, Call(enc.op, enc.params))
  IN  IF ~r.file.present
      THEN {Outcome(ErrorRes(400, "No file uploaded"), <<>>, <<>>)}
      ELSE IF ~parsed.ok
      THEN {Outcome(ErrorRes(400, "Invalid options JSON"), <<>>, <<>>)}
      ELSE IF Len(r.file.buffer) = 0
      THEN {Caught(Thrown(EmptyInputError), c0)}
      ELSE IF ~enc.supported
      THEN {Outcome(ErrorRes(400, "Unsupported format: " \o TemplateString(format)), c1, <<>>)}
      ELSE IF ~CanRead(options)
      THEN {Caught(Thrown("Cannot read properties of null (reading '"
                          \o FirstRead(enc.op) \o "')"), c1)}
      ELSE {IF a.result.ok
            THEN Outcome(FileRes(a.result.buffer, enc.contentType), a.calls, a.result.buffer)
            ELSE Caught(Thrown(a.result.error), a.calls)
            : a \in Attempt(r.file.buffer, c2)}

FileOutcomes(r) ==
  LET format == JsOr(r.format, Str("mozjpeg"))
      parsed == ParseOptionsField(r.optionsField)
      options == parsed.val
      c0 == <<Call("sharp", NoParams)>>
      enc == FileEncoder(format, options)
      c2 == Append(c0, Call(enc.op, enc.params))
  IN  IF ~r.file.present
      THEN {Outcome(ErrorRes(400, "No file uploaded"), <<>>, <<>>)}
      ELSE IF ~parsed.ok
      THEN {Outcome(ErrorRes(400, "Invalid options JSON"), <<>>, <<>>)}
      ELSE IF Len(r.file.buffer) = 0
      THEN {Caught(Thrown(EmptyInputError), c0)}
      ELSE IF ~enc.supported
      THEN {Outcome(ErrorRes(400, "Unsupported format: " \o TemplateString(format)), c0, <<>>)}
      ELSE IF ~CanRead(options)
      THEN {Caught(Thrown("Cannot read properties of null (reading '"
                          \o FirstRead(enc.op) \o "')"), c0)}
      ELSE {IF a.result.ok
            THEN Outcome(FileRes(a.result.buffer, enc.contentType), a.calls, a.result.buffer)
            ELSE Caught(Thrown(a.result.error), a.calls)
            : a \in Attempt(r.file.buffer, c2)}

----------------------------------------------------------------------------
(* The requests and the environments the model draws from *)

Envs ==
  [ENABLE_AUTH : {Undef, Str("true"), Str("false")},
   API_KEY : {Undef, Str("secret")}]
  \cup {[ENABLE_AUTH |-> Str("true"), API_KEY |-> Str("")]}

Headers == {Undef, Str(""), Str("secret"), Str(Placeholder)}
\* the headers sent with the requests that vary the body
BodyHeaders == {Undef, Str("secret")}

NumVals == {Num(0), Num(6)}
BoolVals == {Bool(TRUE), Bool(FALSE)}

\* the objects with at most n of the numeric keys
RECURSIVE NumericBags(_)
NumericBags(n) ==
  IF n = 0 THEN {EmptyBag}
  ELSE LET fewer == NumericBags(n - 1)
       IN  fewer \cup {[b EXCEPT ![k] = v] : b \in fewer, k \in Range(NumericKeys), v \in NumVals}

BooleanBags == {[EmptyBag EXCEPT ![k] = v] : k \in Range(BooleanKeys), v \in BoolVals}

\* values a JSON body can hold under a boolean key that are not booleans
LooseVals == {Num(1), Num(0), Str("true"), Null}
LooseBags == {[EmptyBag EXCEPT ![k] = v] : k \in Range(BooleanKeys), v \in LooseVals}

Bags == NumericBags(MaxOptKeys) \cup BooleanBags

GoodImage == <<Magic, 0>>
BadImage == <<0>>

Images ==
  {NoImage, ImageText(<<>>), ImageText(Base64Encode(GoodImage)),
   ImageText(Base64Encode(BadImage)), ImageText(<<Junk, Junk>>)}

\* the options of the guide's "WebP with Lossless" example
GuideWebpOptions ==
  [EmptyBag EXCEPT !["lossless"] = Bool(TRUE), !["nearLossless"] = Bool(TRUE),
                   !["effort"] = Num(6)]

SupportedNames == {"mozjpeg", "jpeg", "webp", "avif", "oxipng", "png"}
Formats == {Undef, Str("bmp"), Str(""), Str("jxl")} \cup {Str(f) : f \in SupportedNames}

FitMethods == {Undef, Str(""), Str("stretch"), Str("contain"), Str("cover"), Str("fill")}
Methods ==
  {Undef, Str(""), Str("lanczos3"), Str("mitchell"), Str("catrom"), Str("triangle")}
\* values a JSON body can hold under resize.enabled
Enableds == {Undef, Null, Bool(TRUE), Bool(FALSE), Num(1), Num(0), Str("false"), Str("")}

Resizes ==
  {NullResize,
   Resize(Bool(FALSE), Num(8), Undef, Undef, Undef),
   Resize(Bool(TRUE), Undef, Undef, Undef, Undef),
   Resize(Bool(TRUE), Num(8), Num(6), Str("contain"), Str("catrom"))}
  \cup {Resize(Bool(TRUE), Num(8), Undef, fit, Undef) : fit \in FitMethods}
  \cup {Resize(Bool(TRUE), Undef, Num(6), Undef, m) : m \in Methods}
  \cup {Resize(e, Num(8), Num(6), Str("stretch"), Str("mitchell")) : e \in Enableds}

\* options text whose keys are those of a resize plan
ResizeKeysText ==
  Field(<<Punct("{"), StrTok("enabled"), Punct(":"), LitTok("true"), Punct(","),
          StrTok("width"), Punct(":"), NumTok(8), Punct("}")>>)

OptionTexts ==
  {NoField, Field(<<>>), Field(<<LitTok("null")>>), Field(<<NumTok(6)>>),
   Field(<<Punct("{")>>), Field(<<WordTok("quality")>>),
   Field(<<Punct("{"), WordTok("quality"), Punct(":"), NumTok(6), Punct("}")>>),
   Field(<<Punct("{"), StrTok("quality"), Punct(":"), NumTok(6), Punct(","), Punct("}")>>)}
  \cup {Field(JsonStringify(b)) : b \in Bags}

\* every options object the requests carry
OptionBags == Bags \cup LooseBags \cup {GuideWebpOptions}

Parts == {NoFile, File(GoodImage), File(BadImage), File(<<>>)}

HealthRequests == {[NoReq EXCEPT !.endpoint = "/health", !.xApiKey = h] : h \in Headers}

InfoRequests ==
  {[NoReq EXCEPT !.endpoint = "/info", !.xApiKey = h, !.image = i]
   : h \in Headers, i \in Images}

CompressRequests ==
  {[NoReq EXCEPT !.endpoint = "/compress", !.xApiKey = h, !.image = i, !.format = f,
                 !.options = o]
   : h \in BodyHeaders, i \in Images, f \in Formats,
     o \in {Prim(Undef)} \cup {Obj(b) : b \in Bags}}
  \cup
  {[NoReq EXCEPT !.endpoint = "/compress", !.xApiKey = h, !.image = i]
   : h \in Headers, i \in {NoImage, ImageText(Base64Encode(GoodImage))}}
  \cup
  {[NoReq EXCEPT !.endpoint = "/compress", !.xApiKey = h, !.image = i, !.format = f,
                 !.resize = z]
   : h \in BodyHeaders, i \in {NoImage, ImageText(Base64Encode(GoodImage))},
     f \in {Undef, Str("webp"), Str("bmp")}, z \in Resizes}
  \cup
  {[NoReq EXCEPT !.endpoint = "/compress", !.image = ImageText(Base64Encode(GoodImage)),
                 !.format = Str(f), !.options = Obj(b)]
   : f \in SupportedNames, b \in LooseBags}
  \cup
  {[NoReq EXCEPT !.endpoint = "/compress", !.image = ImageText(Base64Encode(GoodImage)),
                 !.format = Str("webp"), !.options = Obj(GuideWebpOptions)]}

FileRequests ==
  {[NoReq EXCEPT !.endpoint = "/compress/file", !.xApiKey = h, !.part = p, !.format = f,
                 !.optionsField = t]
   : h \in BodyHeaders, p \in Parts, f \in Formats, t \in OptionTexts}
  \cup
  {[NoReq EXCEPT !.endpoint = "/compress/file", !.xApiKey = h, !.part = p]
   : h \in Headers, p \in {NoFile, File(GoodImage)}}
  \cup
  {[NoReq EXCEPT !.endpoint = "/compress/file", !.part = File(GoodImage), !.format = Str(f),
                 !.optionsField = Field(JsonStringify(b))]
   : f \in SupportedNames, b \in LooseBags \cup {GuideWebpOptions}}
  \cup
  {[NoReq EXCEPT !.endpoint = "/compress/file", !.part = p, !.format = f,
                 !.optionsField = t, !.resize = z]
   : p \in {File(GoodImage), File(BadImage)}, f \in {Undef, Str("webp")},
     t \in {NoField, ResizeKeysText},
     z \in {NoResize, Resize(Bool(TRUE), Num(8), Num(6), Str("contain"), Str("catrom"))}}

Requests == HealthRequests \cup InfoRequests \cup CompressRequests \cup FileRequests

----------------------------------------------------------------------------
(* The server *)

\* everything the server holds for one request in flight
Idle ==
  [pc |-> "idle", req |-> NoReq, res |-> NoRes, gate |-> "none", calls |-> <<>>,
   encoded |-> <<>>, failure |-> <<>>, sent |-> 0]

Init ==
  /\ env \in Envs
  /\ boot = env
  /\ API_KEY = LoadApiKey(env)
  /\ pc = "idle"
  /\ req = NoReq
  /\ res = NoRes
  /\ gate = "none"
  /\ calls = <<>>
  /\ encoded = <<>>
  /\ failure = <<>>
  /\ sent = 0
  /\ prev = "none"
  /\ parked = Idle
  /\ proc = "running"
  /\ errlog = {}

\* mutant: /health is registered behind the gate as well
Route_AllGated(endpoint) == "auth"

\* mutant: no route names the gate
Route_Ungated(endpoint) == "handler"

\* the first middleware of each route: only the data routes name optionalApiKey
Route(endpoint) == IF endpoint = "/health" THEN "handler" ELSE "auth"

\* a request out of `requests` arrives and is routed
ReceiveFrom(requests) ==
  /\ proc = "running"
  /\ pc = "idle"
  /\ \E r \in requests :
       /\ req' = r
       /\ pc' = Route(r.endpoint)
  /\ res' = NoRes
  /\ gate' = "none"
  /\ calls' = <<>>
  /\ encoded' = <<>>
  /\ failure' = <<>>
  /\ sent' = 0
  /\ UNCHANGED <<env, API_KEY, prev, boot, parked, proc, errlog>>

Receive == ReceiveFrom(Requests)

\* the optionalApiKey middleware of the three data routes
OptionalApiKey ==
  /\ proc = "running"
  /\ pc = "auth"
  /\ LET d == OptionalApiKeyDecision(env, API_KEY, req)
     IN  /\ pc' = IF ~d.next THEN "done"
                  ELSE IF req.endpoint = "/compress/file" THEN "upload"
                  ELSE "handler"
         /\ req' = IF d.next /\ EnableAuth(env) THEN [req EXCEPT !.apiKey = req.xApiKey]
                   ELSE req
         /\ res' = IF d.responded THEN d.res ELSE res
         /\ sent' = IF d.responded THEN sent + 1 ELSE sent
         /\ gate' = IF d.next THEN "next" ELSE "rejected"
  /\ UNCHANGED <<env, API_KEY, calls, encoded, prev, boot, failure, parked, proc, errlog>>

\* upload.single("image"): the file part is read into memory as req.file
UploadSingle ==
  /\ proc = "running"
  /\ pc = "upload"
  /\ req' = [req EXCEPT !.file = req.part]
  /\ pc' = "handler"
  /\ UNCHANGED <<env, API_KEY, res, gate, calls, encoded, prev, boot, failure, sent,
                 parked, proc, errlog>>

Health ==
  /\ proc = "running"
  /\ pc = "handler" /\ req.endpoint = "/health"
  /\ res' = HealthRes
  /\ sent' = sent + 1
  /\ pc' = "done"
  /\ UNCHANGED <<env, API_KEY, req, gate, calls, encoded, prev, boot, failure, parked,
                 proc, errlog>>

\* a handler runs to its response: every outcome writes one response
Handle(outcomes) ==
  /\ proc = "running"
  /\ \E o \in outcomes :
       /\ res' = o.res
       /\ calls' = o.calls
       /\ encoded' = o.out
       /\ failure' = o.failure
  /\ sent' = sent + 1
  /\ pc' = "done"
  /\ UNCHANGED <<env, API_KEY, req, gate, prev, boot, parked, proc, errlog>>

Info == pc = "handler" /\ req.endpoint = "/info" /\ Handle(InfoOutcomes(req))

Compress == pc = "handler" /\ req.endpoint = "/compress" /\ Handle(CompressOutcomes(req))

CompressFile == pc = "handler" /\ req.endpoint = "/compress/file" /\ Handle(FileOutcomes(req))

\* the response has been sent: everything the request held is dropped
Finish ==
  /\ proc = "running"
  /\ pc = "done"
  /\ prev' = IF res.status = 200 THEN "ok" ELSE "error"
  /\ pc' = "idle"
  /\ req' = NoReq
  /\ res' = NoRes
  /\ gate' = "none"
  /\ calls' = <<>>
  /\ encoded' = <<>>
  /\ failure' = <<>>
  /\ sent' = 0
  /\ UNCHANGED <<env, API_KEY, boot, parked, proc, errlog>>

Next ==
  \/ Receive
  \/ OptionalApiKey
  \/ UploadSingle
  \/ Health
  \/ Info
  \/ Compress
  \/ CompressFile
  \/ Finish

Spec == Init /\ [][Next]_vars

----------------------------------------------------------------------------
(* The server in a process whose environment is changed while it runs *)

\* one request per route, without and with the key
GateRequests ==
  {[NoReq EXCEPT !.endpoint = "/health", !.xApiKey = h] : h \in BodyHeaders}
  \cup {[NoReq EXCEPT !.endpoint = "/info", !.xApiKey = h,
                      !.image = ImageText(Base64Encode(GoodImage))] : h \in BodyHeaders}
  \cup {[NoReq EXCEPT !.endpoint = "/compress", !.xApiKey = h,
                      !.image = ImageText(Base64Encode(GoodImage))] : h \in BodyHeaders}
  \cup {[NoReq EXCEPT !.endpoint = "/compress/file", !.xApiKey = h,
                      !.part = File(GoodImage)] : h \in BodyHeaders}

ReceiveGate == ReceiveFrom(GateRequests)

\* process.env is assigned after startup
SetEnv ==
  /\ proc = "running"
  /\ env' \in Envs \ {env}
  /\ UNCHANGED <<API_KEY, pc, req, res, gate, calls, encoded, prev, boot, failure, sent,
                 parked, proc, errlog>>

NextEnv ==
  \/ ReceiveGate
  \/ OptionalApiKey
  \/ UploadSingle
  \/ Health
  \/ Info
  \/ Compress
  \/ CompressFile
  \/ Finish
  \/ SetEnv

SpecEnv == Init /\ [][NextEnv]_vars

----------------------------------------------------------------------------
(* The server with two requests in flight: while one waits (for the next  *)
(* middleware, for toBuffer, for its response to be flushed) the event     *)
(* loop runs the other.                                                    *)

PairRequests ==
  {[NoReq EXCEPT !.endpoint = "/health"],
   [NoReq EXCEPT !.endpoint = "/info"],
   [NoReq EXCEPT !.endpoint = "/compress/file", !.part = File(GoodImage)]}
  \cup {[NoReq EXCEPT !.endpoint = "/compress", !.xApiKey = h,
                      !.image = ImageText(Base64Encode(GoodImage)), !.format = f]
        : h \in BodyHeaders, f \in {Undef, Str("png")}}

ReceivePair == ReceiveFrom(PairRequests)

\* the request in flight, as one record
Current ==
  [pc |-> pc, req |-> req, res |-> res, gate |-> gate, calls |-> calls,
   encoded |-> encoded, failure |-> failure, sent |-> sent]

\* the event loop turns to the other request
Switch ==
  /\ proc = "running"
  /\ parked # Current
  /\ parked' = Current
  /\ pc' = parked.pc
  /\ req' = parked.req
  /\ res' = parked.res
  /\ gate' = parked.gate
  /\ calls' = parked.calls
  /\ encoded' = parked.encoded
  /\ failure' = parked.failure
  /\ sent' = parked.sent
  /\ UNCHANGED <<env, API_KEY, prev, boot, proc, errlog>>

NextPair ==
  \/ ReceivePair
  \/ OptionalApiKey
  \/ UploadSingle
  \/ Health
  \/ Info
  \/ Compress
  \/ CompressFile
  \/ Finish
  \/ Switch

SpecPair == Init /\ [][NextPair]_vars

----------------------------------------------------------------------------
(* The server in a process that can fail outside its handlers *)

\* mutant: the exception is logged and the process goes on
UncaughtException_LogOnly ==
  /\ proc = "running"
  /\ errlog' = errlog \cup {"uncaughtException"}
  /\ UNCHANGED <<env, API_KEY, pc, req, res, gate, calls, encoded, prev, boot, failure,
                 sent, parked, proc>>

\* process.on('uncaughtException'): logError(error, ...); process.exit(1)
UncaughtException ==
  /\ proc = "running"
  /\ errlog' = errlog \cup {"uncaughtException"}
  /\ proc' = "exit 1"
  /\ UNCHANGED <<env, API_KEY, pc, req, res, gate, calls, encoded, prev, boot, failure,
                 sent, parked>>

\* process.on('unhandledRejection'): logger.error('Unhandled Rejection', ...)
UnhandledRejection ==
  /\ proc = "running"
  /\ errlog' = errlog \cup {"Unhandled Rejection"}
  /\ UNCHANGED <<env, API_KEY, pc, req, res, gate, calls, encoded, prev, boot, failure,
                 sent, parked, proc>>

\* process.on("SIGINT"): logger.info(...); process.exit(0)
Sigint ==
  /\ proc = "running"
  /\ errlog' = errlog \cup {"Server shutting down gracefully..."}
  /\ proc' = "exit 0"
  /\ UNCHANGED <<env, API_KEY, pc, req, res, gate, calls, encoded, prev, boot, failure,
                 sent, parked>>

NextProc ==
  \/ ReceiveGate
  \/ OptionalApiKey
  \/ UploadSingle
  \/ Health
  \/ Info
  \/ Compress
  \/ CompressFile
  \/ Finish
  \/ UncaughtException
  \/ UnhandledRejection
  \/ Sigint

SpecProc == Init /\ [][NextProc]_vars

----------------------------------------------------------------------------
(* Vocabulary of the properties *)

DataEndpoints == {"/info", "/compress", "/compress/file"}

\* the auth gate has decided on the request in flight
Decided == req.endpoint \in DataEndpoints /\ gate # "none"

\* a handler has answered the request in flight
Answered(endpoint) == pc = "done" /\ gate # "rejected" /\ req.endpoint = endpoint

FlagOn == env.ENABLE_AUTH = Str("true")

HeaderAbsent == req.xApiKey.t = "undefined"
HeaderEmpty == req.xApiKey = Str("")

Rejected(code, msg) ==
  /\ gate = "rejected"
  /\ pc = "done"
  /\ res.status = code /\ res.kind = "error" /\ res.error = msg
  /\ calls = <<>>

Proceeded == gate = "next" /\ pc \in {"upload", "handler", "done"}

\* the library calls of the request in flight that start an encoder
EncoderOps == {"jpeg", "webp", "avif", "png"}
EncoderCalls == {i \in DOMAIN calls : calls[i].op \in EncoderOps}

----------------------------------------------------------------------------
(* C1 *)

\* C1 (as stated): with the flag true, a request without x-api-key gets 401
\* "API key is required", one whose x-api-key differs from the configured key
\* gets 403 "Invalid API key", one whose x-api-key equals it proceeds; with
\* the flag false every request proceeds.
C1_AsStated ==
  Decided =>
    IF FlagOn
    THEN /\ HeaderAbsent => Rejected(401, "API key is required")
         /\ (~HeaderAbsent /\ req.xApiKey # API_KEY) => Rejected(403, "Invalid API key")
         /\ req.xApiKey = API_KEY => Proceeded
    ELSE Proceeded

\* C1 (amended): as stated, except that an x-api-key header with an empty
\* value is answered like a missing one, 401 "API key is required"; 403 is
\* the answer to a non-empty x-api-key that differs from the configured key.
C1_AuthGate ==
  Decided =>
    IF FlagOn
    THEN /\ (HeaderAbsent \/ HeaderEmpty) => Rejected(401, "API key is required")
         /\ (~HeaderAbsent /\ ~HeaderEmpty /\ req.xApiKey # API_KEY)
              => Rejected(403, "Invalid API key")
         /\ req.xApiKey = API_KEY => Proceeded
    ELSE Proceeded

\* the gate has answered 403 on /compress/file, 401 to an empty header and
\* let the configured key through
C1_Witness ==
  /\ FlagOn
  /\ req.endpoint = "/compress/file"
  /\ req.xApiKey = Str("secret")
  /\ API_KEY = Str(Placeholder)
  /\ Rejected(403, "Invalid API key")

----------------------------------------------------------------------------
(* C2 *)

\* C2: with ENABLE_AUTH not set, the data endpoints still require a key: a
\* request without the x-api-key header is answered 401.
C2_AuthOnByDefault ==
  (Decided /\ env.ENABLE_AUTH.t = "undefined" /\ HeaderAbsent)
    => Rejected(401, "API key is required")

----------------------------------------------------------------------------
(* C3 *)

\* C3: GET /health is never sent through the auth gate and always answers
\* 200 {status: "healthy", service: "image-compressor"}, whatever the flag,
\* the x-api-key header and the outcome of the request before it.
C3_HealthConstant ==
  req.endpoint = "/health" =>
    /\ pc \in {"handler", "done"}
    /\ gate = "none"
    /\ pc = "done" =>
         /\ res.status = 200 /\ res.kind = "health"
         /\ res.health = "healthy" /\ res.service = "image-compressor"
         /\ res = [NoRes EXCEPT !.status = 200, !.kind = "health", !.health = "healthy",
                                !.service = "image-compressor"]
         /\ calls = <<>>

\* /health answered with auth on, a wrong key, after a failed request
C3_Witness ==
  /\ req.endpoint = "/health" /\ pc = "done" /\ res.status = 200
  /\ FlagOn /\ ~HeaderAbsent /\ req.xApiKey # API_KEY
  /\ prev = "error"

----------------------------------------------------------------------------
(* C4 *)

ImageMissing == req.image.t = "undefined" \/ req.image.chars = <<>>

\* C4: a request that passed the gate on /info or /compress without an image
\* field, or with an empty one, is answered 400 "Image data required" and no
\* library call is made, whatever format, options and resize hold.
C4_ImageRequired ==
  \A e \in {"/info", "/compress"} :
    (Answered(e) /\ ImageMissing) =>
      /\ res.status = 400 /\ res.kind = "error" /\ res.error = "Image data required"
      /\ calls = <<>>
      /\ encoded = <<>>

\* /compress answered an empty image sent with an unsupported format and options
C4_Witness ==
  /\ Answered("/compress") /\ res.status = 400
  /\ req.image = ImageText(<<>>)
  /\ req.format = Str("bmp")
  /\ req.options # Prim(Undef)

----------------------------------------------------------------------------
(* C5 *)

\* C5: in every 200 response of /compress, size is the byte length of the
\* base64-decoded image field, and both come from the buffer the encoder
\* returned: decoding image gives that buffer back.
C5_SizeIsDecodedLength ==
  (Answered("/compress") /\ res.status = 200) =>
    /\ res.size = Len(Base64Decode(res.image))
    /\ Base64Decode(res.image) = encoded
    /\ res.size = Len(encoded)

\* a 200 whose base64 text is padded: the text is longer than 4/3 of the size
C5_Witness ==
  /\ Answered("/compress") /\ res.status = 200
  /\ Len(encoded) = 2
  /\ res.image[Len(res.image)] = Pad

----------------------------------------------------------------------------
(* C6 *)

CanonicalAlias(f) ==
  CASE f \in {Undef, Str("mozjpeg"), Str("jpeg")} -> "mozjpeg"
    [] f \in {Str("oxipng"), Str("png")} -> "oxipng"
    [] f = Str("webp") -> "webp"
    [] f = Str("avif") -> "avif"
    [] OTHER -> "none"

\* C6: in every 200 response of /compress, format is the canonical alias of
\* the requested format (mozjpeg for mozjpeg, jpeg and no format; oxipng for
\* oxipng and png; webp; avif), never "jpeg" or "png".
C6_CanonicalFormat ==
  (Answered("/compress") /\ res.status = 200) =>
    /\ res.format = CanonicalAlias(req.format)
    /\ res.format \in {"mozjpeg", "oxipng", "webp", "avif"}

\* a 200 for a request that asked for "png"
C6_Witness ==
  /\ Answered("/compress") /\ res.status = 200
  /\ req.format = Str("png") /\ res.format = "oxipng"

----------------------------------------------------------------------------
(* C7 *)

UnsupportedName(f) == f.t = "string" /\ f.s \notin SupportedNames

ValidJsonImage == req.image.t = "string" /\ Decodable(Base64Decode(req.image.chars))
ValidUpload == req.part.present /\ Decodable(req.part.buffer)
OptionsFieldFine == req.optionsField.t = "undefined" \/ JsonParse(req.optionsField.toks).ok

\* C7: for a valid image and a format string F outside the six names,
\* /compress answers 500 "Unsupported format: F" and /compress/file answers
\* 400 "Unsupported format: F", both with the F the caller sent.
C7_UnsupportedFormat ==
  /\ (Answered("/compress") /\ ValidJsonImage /\ UnsupportedName(req.format)) =>
       /\ res.status = 500 /\ res.kind = "error"
       /\ res.error = "Unsupported format: " \o req.format.s
  /\ (Answered("/compress/file") /\ ValidUpload /\ OptionsFieldFine
        /\ UnsupportedName(req.format)) =>
       /\ res.status = 400 /\ res.kind = "error"
       /\ res.error = "Unsupported format: " \o req.format.s

----------------------------------------------------------------------------
(* C8 *)

NoFileAnswer ==
  (Answered("/compress/file") /\ ~req.part.present) =>
    /\ res.status = 400 /\ res.kind = "error" /\ res.error = "No file uploaded"
    /\ calls = <<>>

InvalidJsonAnswer ==
  /\ res.status = 400 /\ res.kind = "error" /\ res.error = "Invalid options JSON"
  /\ calls = <<>>

\* C8 (as stated): on /compress/file a request without the file part gets 400
\* "No file uploaded"; a request with a file and an options field that is
\* not valid JSON gets 400 "Invalid options JSON"; no encoder is invoked.
C8_AsStated ==
  /\ NoFileAnswer
  /\ (Answered("/compress/file") /\ req.part.present
        /\ req.optionsField.t = "string" /\ ~JsonParse(req.optionsField.toks).ok)
       => InvalidJsonAnswer

\* C8 (amended): as stated for an options field that is not empty; an empty
\* options field is treated like a missing one and is not rejected.
C8_FileValidation ==
  /\ NoFileAnswer
  /\ (Answered("/compress/file") /\ req.part.present
        /\ req.optionsField.t = "string" /\ Len(req.optionsField.toks) > 0
        /\ ~JsonParse(req.optionsField.toks).ok)
       => InvalidJsonAnswer
  /\ (Answered("/compress/file") /\ req.part.present /\ req.optionsField = Field(<<>>))
       => res.error # "Invalid options JSON"

\* a file sent with options text that stops after "{" was answered 400
C8_Witness ==
  /\ Answered("/compress/file") /\ req.part.present
  /\ req.optionsField = Field(<<Punct("{")>>)
  /\ res.status = 400 /\ res.error = "Invalid options JSON"

----------------------------------------------------------------------------
(* C9 *)

\* parseInt of a decimal header value
RECURSIVE StringToNumber(_)
StringToNumber(digits) ==
  IF Len(digits) = 0 THEN 0
  ELSE 10 * StringToNumber(SubSeq(digits, 1, Len(digits) - 1)) + digits[Len(digits)]

ContentTypeOf(f) ==
  CASE f \in {Undef, Str("mozjpeg"), Str("jpeg")} -> "image/jpeg"
    [] f = Str("webp") -> "image/webp"
    [] f = Str("avif") -> "image/avif"
    [] f \in {Str("oxipng"), Str("png")} -> "image/png"
    [] OTHER -> "none"

\* C9: in every 200 response of /compress/file the body is the buffer the
\* encoder returned, Content-Type is image/jpeg for mozjpeg and jpeg (and for
\* no format), image/webp for webp, image/avif for avif, image/png for oxipng
\* and png, and Content-Length is the byte length of that buffer.
C9_FileResponse ==
  (Answered("/compress/file") /\ res.status = 200) =>
    /\ res.kind = "binary"
    /\ encoded # <<>>
    /\ res.raw = encoded
    /\ StringToNumber(res.contentLength) = Len(encoded)
    /\ req.format \in ({Undef} \cup {Str(f) : f \in SupportedNames})
         => res.contentType = ContentTypeOf(req.format)

\* a 200 for an upload that asked for "oxipng"
C9_Witness ==
  /\ Answered("/compress/file") /\ res.status = 200
  /\ req.format = Str("oxipng") /\ res.contentType = "image/png"
  /\ Len(res.raw) = MaxOut

----------------------------------------------------------------------------
(* C10 *)

Supplied(k) == req.options.t = "object" /\ req.options.bag[k].t = "number"
SuppliedOr(k, d) == IF Supplied(k) THEN req.options.bag[k] ELSE Num(d)

\* C10: on /compress a numeric option the caller supplies reaches the encoder
\* unchanged, 0 included, and the default is used only when it is absent:
\* quality (75 for jpeg and webp, 50 for avif), webp effort = method (4),
\* avif effort = effort (4), png compressionLevel = level (2), png effort =
\* effort (7).
C10_NumericOptions ==
  (Answered("/compress") /\ ValidJsonImage) =>
    \A i \in EncoderCalls :
      LET p == calls[i].params
      IN  CASE calls[i].op = "jpeg" -> p.quality = SuppliedOr("quality", 75)
            [] calls[i].op = "webp" ->
                 /\ p.quality = SuppliedOr("quality", 75)
                 /\ p.effort = SuppliedOr("method", 4)
            [] calls[i].op = "avif" ->
                 /\ p.quality = SuppliedOr("quality", 50)
                 /\ p.effort = SuppliedOr("effort", 4)
            [] calls[i].op = "png" ->
                 /\ p.compressionLevel = SuppliedOr("level", 2)
                 /\ p.effort = SuppliedOr("effort", 7)

----------------------------------------------------------------------------
(* C11 *)

\* the options object the caller sent: the JSON field, or the parsed form field
SentOptions ==
  IF req.endpoint = "/compress" THEN req.options
  ELSE IF req.optionsField.t = "string" /\ JsonParse(req.optionsField.toks).ok
       THEN JsonParse(req.optionsField.toks).val
       ELSE Prim(Undef)

ExactlyTrue(k) == SentOptions.t = "object" /\ SentOptions.bag[k] = Bool(TRUE)
ExactlyFalse(k) == SentOptions.t = "object" /\ SentOptions.bag[k] = Bool(FALSE)

\* C11: the boolean parameters every encoder is started with: jpeg
\* progressive is true unless options.progressive is the boolean false and
\* mozjpeg is always true; webp and avif lossless, webp nearLossless and png
\* progressive (interlace) are true only when the option is the boolean true;
\* webp smartSubsample is true unless options.use_sharp_yuv is the boolean
\* false.  1, 0, "true", null and an absent key fall on the default side.
C11_BooleanOptions ==
  \A e \in {"/compress", "/compress/file"} :
    Answered(e) =>
      \A i \in EncoderCalls :
        LET p == calls[i].params
        IN  CASE calls[i].op = "jpeg" ->
                   /\ p.progressive = Bool(~ExactlyFalse("progressive"))
                   /\ p.mozjpeg = Bool(TRUE)
              [] calls[i].op = "webp" ->
                   /\ p.lossless = Bool(ExactlyTrue("lossless"))
                   /\ p.nearLossless = Bool(ExactlyTrue("near_lossless"))
                   /\ p.smartSubsample = Bool(~ExactlyFalse("use_sharp_yuv"))
              [] calls[i].op = "avif" -> p.lossless = Bool(ExactlyTrue("lossless"))
              [] calls[i].op = "png" -> p.progressive = Bool(ExactlyTrue("interlace"))

\* webp was encoded for a request whose lossless option is the number 1
C11_Witness ==
  /\ Answered("/compress") /\ res.status = 200
  /\ req.options.t = "object" /\ req.options.bag["lossless"] = Num(1)
  /\ \E i \in EncoderCalls :
       calls[i].op = "webp" /\ calls[i].params.lossless = Bool(FALSE)

----------------------------------------------------------------------------
(* C12 *)

\* the library calls of the request in flight that resize
ResizeCalls == {i \in DOMAIN calls : calls[i].op = "resize"}

FitOf(v) ==
  CASE v = Str("stretch") -> Str("fill")
    [] v = Str("contain") -> Str("inside")
    [] OTHER -> Str("cover")

KernelOf(v) ==
  CASE v = Str("lanczos3") -> Str("lanczos3")
    [] v = Str("mitchell") -> Str("mitchell")
    [] v = Str("catrom") -> Str("cubic")
    [] OTHER -> Str("lanczos3")

NotGiven(v) == v.t = "undefined" \/ v = Str("")

\* C12 (as stated): every resize call of /compress is given fit = fill for
\* fitMethod "stretch", inside for "contain", cover for any other value and
\* for no fitMethod, and kernel = lanczos3, mitchell, cubic for "lanczos3",
\* "mitchell", "catrom", lanczos3 for any other value and for no method.
C12_AsStated ==
  Answered("/compress") =>
    \A i \in ResizeCalls :
      /\ calls[i].params.fit = FitOf(req.resize.fitMethod)
      /\ calls[i].params.kernel = KernelOf(req.resize.method)

\* C12 (amended): as stated for a fitMethod and a method that are given and
\* not empty; when fitMethod is absent or empty the call is given no fit
\* parameter, and when method is absent or empty it is given no kernel
\* parameter, so the library's own defaults apply.
C12_ResizePlanner ==
  Answered("/compress") =>
    \A i \in ResizeCalls :
      /\ calls[i].params.fit =
           IF NotGiven(req.resize.fitMethod) THEN Undef ELSE FitOf(req.resize.fitMethod)
      /\ calls[i].params.kernel =
           IF NotGiven(req.resize.method) THEN Undef ELSE KernelOf(req.resize.method)

\* a resize that asked for "triangle" and named no fitMethod was started
C12_Witness ==
  /\ Answered("/compress") /\ res.status = 200
  /\ req.resize.method = Str("triangle") /\ req.resize.fitMethod = Undef
  /\ \E i \in ResizeCalls :
       calls[i].params.kernel = Str("lanczos3") /\ calls[i].params.fit = Undef

----------------------------------------------------------------------------
(* C13 *)

\* C13 (as stated): /compress calls the library's resize if and only if
\* resize.enabled is the boolean true; with resize absent, null, or enabled
\* any other value no resize call is made, whatever width, height, method
\* and fitMethod hold.
C13_AsStated ==
  (Answered("/compress") /\ ValidJsonImage) =>
    (ResizeCalls # {} <=> (req.resize.t = "object" /\ req.resize.enabled = Bool(TRUE)))

\* C13 (amended): /compress calls the library's resize, once, if and only if
\* resize is an object whose enabled is truthy: true, a non-zero number or a
\* non-empty string; with resize absent, null, or enabled false, 0, "", null
\* or absent no resize call is made, whatever width, height, method and
\* fitMethod hold.
C13_ResizeIffEnabled ==
  (Answered("/compress") /\ ValidJsonImage) =>
    /\ ResizeCalls # {} <=>
         /\ req.resize.t = "object"
         /\ req.resize.enabled \notin {Undef, Null, Bool(FALSE), Num(0), Str("")}
    /\ Cardinality(ResizeCalls) <= 1

\* a request with enabled false and a full resize plan was encoded unresized
C13_Witness ==
  /\ Answered("/compress") /\ res.status = 200
  /\ req.resize.enabled = Bool(FALSE)
  /\ req.resize.width = Num(8) /\ req.resize.fitMethod = Str("stretch")
  /\ ResizeCalls = {} /\ EncoderCalls # {}

----------------------------------------------------------------------------
(* C14 *)

FlagAtStartup == boot.ENABLE_AUTH = Str("true")
KeyAtStartup ==
  IF boot.API_KEY \in {Undef, Str("")} THEN Str(Placeholder) ELSE boot.API_KEY

\* C14: the gate decides on every request with the flag and the key the
\* environment held when the process started, whatever the environment
\* holds by the time the request arrives: with the flag true at startup only
\* a request carrying the startup key proceeds, with the flag not true at
\* startup every request proceeds.
C14_FixedAtStartup ==
  Decided =>
    IF FlagAtStartup
    THEN gate = "next" <=> req.xApiKey = KeyAtStartup
    ELSE gate = "next"

----------------------------------------------------------------------------
(* C15 *)

\* C15: when something is thrown while /info, /compress or /compress/file
\* handles a request (by the decoder, metadata, resize or an encoder), the
\* response is 500 and its error is the message of what was thrown, never a
\* 200 and never the fallback text.
C15_FailurePassedThrough ==
  \A e \in DataEndpoints :
    (Answered(e) /\ failure # <<>>) =>
      /\ Len(failure) = 1
      /\ res.status = 500 /\ res.kind = "error"
      /\ res.error = failure[1].message
      /\ res.error # "Unknown error occurred"
      /\ encoded = <<>>

\* an upload whose encoding failed was answered with the encoder's message
C15_Witness ==
  /\ Answered("/compress/file")
  /\ \E i \in DOMAIN calls : calls[i].op = "toBuffer"
  /\ failure = <<Thrown("Processing failed")>>
  /\ res.status = 500 /\ res.error = "Processing failed"

----------------------------------------------------------------------------
(* C16 *)

CompleteSuccess ==
  /\ res.status = 200 /\ res.error = ""
  /\ CASE res.kind = "compress" -> res.image # <<>> /\ res.size > 0 /\ res.format # ""
       [] res.kind = "binary" ->
            res.raw # <<>> /\ res.contentType # "" /\ res.contentLength # <<>>
       [] res.kind = "info" -> TRUE
       [] res.kind = "health" -> res.health # "" /\ res.service # ""
       [] OTHER -> FALSE

ErrorBody ==
  /\ res.status \in {400, 401, 403, 500}
  /\ res.error # ""
  /\ res = ErrorRes(res.status, res.error)

----------------------------------------------------------------------------
(* C18 *)

\* the library calls of the request in flight that start the pipeline
PipelineStarts == {i \in DOMAIN calls : calls[i].op \in {"toBuffer", "metadata"}}

\* C18: for every request the pipeline (toBuffer, or metadata on /info) is
\* started at most once; after it failed the request is answered with the
\* error and the pipeline has been started exactly once.
C18_NoRetry ==
  /\ Cardinality(PipelineStarts) <= 1
  /\ (pc = "done" /\ failure # <<>>) =>
       /\ res.kind = "error" /\ res.status = 500
       /\ encoded = <<>>
  /\ (pc = "done" /\ res.status = 200 /\ req.endpoint \in DataEndpoints) =>
       Cardinality(PipelineStarts) = 1

\* /compress answered 500 after its only toBuffer call failed
C18_Witness ==
  /\ Answered("/compress") /\ res.status = 500
  /\ failure = <<Thrown("Processing failed")>>
  /\ Cardinality(PipelineStarts) = 1
  /\ calls[Len(calls)].op = "toBuffer"

----------------------------------------------------------------------------
(* C19 *)

\* C19: for a valid image and a format the caller supplies that is not one
\* of the six names (the empty string and "jxl" included), /compress and
\* /compress/file both answer with an unsupported-format error that names
\* the value sent, and start no encoder.
C19_NeverCoerced ==
  \A e \in {"/compress", "/compress/file"} :
    (/\ Answered(e)
     /\ IF e = "/compress" THEN ValidJsonImage ELSE ValidUpload /\ OptionsFieldFine
     /\ UnsupportedName(req.format)) =>
      /\ res.kind = "error" /\ res.status \in {400, 500}
      /\ res.error = "Unsupported format: " \o req.format.s
      /\ EncoderCalls = {}
      /\ encoded = <<>>

----------------------------------------------------------------------------
(* C17 *)

\* what the caller sent: the request without what the middleware added
AsSent(r) == [r EXCEPT !.apiKey = Undef, !.file = NoFile]

StartedToBuffer(c) == \E i \in DOMAIN c : c[i].op = "toBuffer"

\* the encoder behaved the same for both requests wherever both used it
SameEncoding ==
  (StartedToBuffer(calls) /\ StartedToBuffer(parked.calls)) =>
    (encoded = parked.encoded /\ failure = parked.failure)

----------------------------------------------------------------------------
(* C20 *)

\* C20: an uncaught exception is logged and ends the process with exit code
\* 1, and an exited process takes no further step: no request is received,
\* passed on or answered; an unhandled rejection is logged and changes
\* nothing else: the process runs on, the request in flight is as it was and
\* the next step of serving can be taken.
C20_ProcessFailures ==
  /\ [](("uncaughtException" \in errlog) <=> (proc = "exit 1"))
  /\ []((proc = "running" /\ "Unhandled Rejection" \in errlog) =>
          ENABLED (ReceiveGate \/ OptionalApiKey \/ UploadSingle \/ Health \/ Info
                     \/ Compress \/ CompressFile \/ Finish))
  /\ [][proc = "running"]_vars
  /\ []["Unhandled Rejection" \in errlog' /\ "Unhandled Rejection" \notin errlog
          => /\ proc' = "running"
             /\ UNCHANGED <<pc, req, res, gate, calls, encoded, sent>>]_vars

\* a request was answered 200 by a process that had logged a rejection and
\* had answered another request before
C20_Witness ==
  /\ proc = "running"
  /\ "Unhandled Rejection" \in errlog
  /\ pc = "done" /\ res.status = 200 /\ req.endpoint = "/compress"
  /\ prev = "ok"

----------------------------------------------------------------------------
(* C21 *)

\* C21: for a /compress request with format webp and the guide's options
\* {lossless: true, nearLossless: true, effort: 6}, the webp encoder is
\* started with lossless = true, nearLossless = true and effort = 6.
C21_GuideWebpOptions ==
  (/\ Answered("/compress") /\ ValidJsonImage
   /\ req.format = Str("webp")
   /\ req.options = Obj(GuideWebpOptions)) =>
    /\ EncoderCalls # {}
    /\ \A i \in EncoderCalls :
         /\ calls[i].op = "webp"
         /\ calls[i].params.lossless = Bool(TRUE)
         /\ calls[i].params.nearLossless = Bool(TRUE)
         /\ calls[i].params.effort = Num(6)

----------------------------------------------------------------------------
(* C22 *)

\* the form field a client writes for each options object
TextOf == [b \in OptionBags |-> Field(JsonStringify(b))]
\* the options object each such field was written from
BagOf == [t \in {TextOf[b] : b \in OptionBags} |-> CHOOSE b \in OptionBags : TextOf[b] = t]

\* C22: when /compress/file has handled an upload with one of the six format
\* names and an options field that is the JSON text of an options object,
\* the encoder it started and the parameters it gave it are the ones the
\* /compress switch builds from that format and that object.
C22_SameEncoder ==
  (/\ Answered("/compress/file")
   /\ req.part.present /\ Len(req.part.buffer) > 0
   /\ req.format \in {Str(f) : f \in SupportedNames}
   /\ req.optionsField \in DOMAIN BagOf) =>
      LET enc == CompressEncoder(req.format, Obj(BagOf[req.optionsField]))
      IN  /\ enc.supported
          /\ Cardinality(EncoderCalls) = 1
          /\ \A i \in EncoderCalls : calls[i] = Call(enc.op, enc.params)

\* an upload whose options text is {"method":6} was encoded as webp, effort 6
C22_Witness ==
  /\ Answered("/compress/file") /\ res.status = 200
  /\ req.format = Str("webp")
  /\ req.optionsField = Field(JsonStringify([EmptyBag EXCEPT !["method"] = Num(6)]))
  /\ \E i \in EncoderCalls : calls[i].op = "webp" /\ calls[i].params.effort = Num(6)

----------------------------------------------------------------------------
(* C23 *)

\* C23: a library call made for a request to a data endpoint implies that
\* the gate passed the request on, and that auth is off or the request
\* carries the configured key; with auth on, a request without the
\* configured key is in no other place than before the gate or rejected by
\* it, its file part has not been read into req.file, and no library call
\* has been made and no buffer encoded for it.
C23_NoWorkUnauthenticated ==
  /\ (req.endpoint \in DataEndpoints /\ calls # <<>>) =>
       /\ gate = "next"
       /\ EnableAuth(env) => req.xApiKey = API_KEY
  /\ (req.endpoint \in DataEndpoints /\ EnableAuth(env) /\ req.xApiKey # API_KEY) =>
       /\ pc \in {"auth", "done"}
       /\ pc = "done" => gate = "rejected" /\ res.status \in {401, 403}
       /\ req.file = NoFile
       /\ calls = <<>>
       /\ encoded = <<>>

\* an upload with a wrong key was rejected before its file was read
C23_Witness ==
  /\ EnableAuth(env)
  /\ req.endpoint = "/compress/file" /\ req.part = File(GoodImage)
  /\ req.xApiKey = Str("secret") /\ API_KEY # Str("secret")
  /\ pc = "done" /\ gate = "rejected" /\ res.status = 403
  /\ req.file = NoFile /\ calls = <<>>

----------------------------------------------------------------------------
(* C24 *)

\* an options field that holds text and is not JSON
Malformed ==
  /\ req.optionsField.t = "string" /\ Len(req.optionsField.toks) > 0
  /\ ~JsonParse(req.optionsField.toks).ok

\* C24: /compress/file checks the file, then the options text, then the
\* format, and the first check that fails decides the answer: no file gets
\* "No file uploaded" whatever the options; a file with malformed options
\* gets "Invalid options JSON" whatever the format; a file with options that
\* pass and a format outside the six names gets "Unsupported format"; an
\* encoder is started only when all three pass.  On /compress a missing
\* image gets 400 "Image data required" although the format is unsupported.
C24_ValidationOrder ==
  /\ Answered("/compress/file") =>
       /\ ~req.part.present =>
            /\ res.status = 400 /\ res.error = "No file uploaded"
            /\ calls = <<>>
       /\ (req.part.present /\ Malformed) =>
            /\ res.status = 400 /\ res.error = "Invalid options JSON"
            /\ calls = <<>>
       /\ (req.part.present /\ ~Malformed /\ Len(req.part.buffer) > 0
             /\ UnsupportedName(req.format)) =>
            /\ res.status = 400
            /\ res.error = "Unsupported format: " \o req.format.s
            /\ EncoderCalls = {}
       /\ EncoderCalls # {} =>
            req.part.present /\ ~Malformed /\ ~UnsupportedName(req.format)
  /\ (Answered("/compress") /\ ImageMissing /\ UnsupportedName(req.format)) =>
       /\ res.status = 400 /\ res.error = "Image data required"
       /\ calls = <<>>

----------------------------------------------------------------------------
(* C25 *)

\* C25: with auth on and API_KEY unset or empty in the environment, the
\* configured key is the placeholder: the gate passes a request on exactly
\* when its x-api-key is the placeholder, and answers every other request
\* 401 or 403.
C25_PlaceholderKey ==
  (Decided /\ FlagOn /\ env.API_KEY \in {Undef, Str("")}) =>
    /\ API_KEY = Str(Placeholder)
    /\ gate = "next" <=> req.xApiKey = Str(Placeholder)
    /\ gate # "next" =>
         /\ gate = "rejected" /\ pc = "done"
         /\ res.status \in {401, 403} /\ res.kind = "error"
         /\ calls = <<>>

\* with API_KEY empty, a request carrying the placeholder was encoded
C25_Witness ==
  /\ FlagOn /\ env.API_KEY = Str("")
  /\ req.xApiKey = Str(Placeholder)
  /\ Answered("/compress") /\ gate = "next" /\ res.status = 200

----------------------------------------------------------------------------
(* C26 *)

\* C26: no request to /compress/file makes a resize call, whatever resize
\* field and options it carries; an upload answered 200 was decoded, given
\* to one encoder and written out, and nothing else.
C26_UploadNeverResizes ==
  req.endpoint = "/compress/file" =>
    /\ ResizeCalls = {}
    /\ (pc = "done" /\ res.status = 200) =>
         /\ Len(calls) = 3
         /\ calls[1].op = "sharp" /\ calls[2].op \in EncoderOps /\ calls[3].op = "toBuffer"

\* an upload sent with a resize field and resize keys in options was
\* encoded without a resize
C26_Witness ==
  /\ Answered("/compress/file") /\ res.status = 200
  /\ req.resize = Resize(Bool(TRUE), Num(8), Num(6), Str("contain"), Str("catrom"))
  /\ req.optionsField = ResizeKeysText
  /\ ResizeCalls = {}

====
